---- MODULE Spec2Model ----
(***************************************************************************)
(* ProbTrend: a composite trend-probability oscillator over an OHLCV bar   *)
(* series, in its two implementations:                                     *)
(*   src/indicators/probability_trend.py       (whole-array form)          *)
(*   src/indicators/probability_trend_lazy.py  (deferred-expression form)  *)
(* and the two harnesses src/test-indi.py, src/test-lazy-indi.py.          *)
(*                                                                         *)
(* Series values are modelled as fractions, exact except in the smoothing  *)
(* recurrences, which round to 1 / Precision once a denominator outgrows   *)
(* it.  A value is a pair <<n, d>>:                                        *)
(*   d > 0   the rational n/d in lowest terms                              *)
(*   d = 0   an IEEE special: <<1,0>> = +inf, <<-1,0>> = -inf, <<0,0>> NaN *)
(*   d = -1  the polars null                                               *)
(* Booleans of a polars Boolean series are the values 1, 0 and null.       *)
(* Series are sequences indexed from 1: bar i of the model is row i-1 of   *)
(* the data frame.                                                         *)
(***************************************************************************)
EXTENDS Integers, Sequences, FiniteSets, TLC

VARIABLES df, cfg, eager, lazy, oscillator, signal, counts, probs, carry,
          emitted, series, smoothed

vars == <<df, cfg, eager, lazy, oscillator, signal, counts, probs, carry,
          emitted, series, smoothed>>

----------------------------------------------------------------------------
(* Float64 / null value algebra (polars semantics).                        *)

Null   == <<0, -1>>
NaN    == <<0, 0>>
PosInf == <<1, 0>>
NegInf == <<-1, 0>>

Abs(n) == IF n < 0 THEN -n ELSE n
Sgn(n) == IF n > 0 THEN 1 ELSE IF n < 0 THEN -1 ELSE 0

RECURSIVE GCD(_, _)
GCD(a, b) == IF b = 0 THEN a ELSE GCD(b, a % b)

Rat(n, d) ==
  LET s == IF d < 0 THEN -1 ELSE 1
      g == GCD(Abs(n), Abs(d))
  IN  <<(s * n) \div g, (s * d) \div g>>

Num(n) == <<n, 1>>
True   == Num(1)
False  == Num(0)

IsNull(x) == x[2] = -1
IsNaN(x)  == x = NaN
IsInf(x)  == x[2] = 0 /\ x[1] # 0
IsFin(x)  == x[2] > 0

fNeg(a) == IF IsFin(a) \/ IsInf(a) THEN <<-a[1], a[2]>> ELSE a

fAdd(a, b) ==
  IF IsNull(a) \/ IsNull(b) THEN Null
  ELSE IF IsNaN(a) \/ IsNaN(b) THEN NaN
  ELSE IF IsInf(a) /\ IsInf(b) THEN (IF a = b THEN a ELSE NaN)
  ELSE IF IsInf(a) THEN a
  ELSE IF IsInf(b) THEN b
  ELSE LET g == GCD(a[2], b[2])
       IN  Rat(a[1] * (b[2] \div g) + b[1] * (a[2] \div g), (a[2] \div g) * b[2])

fSub(a, b) == fAdd(a, fNeg(b))

fMul(a, b) ==
  IF IsNull(a) \/ IsNull(b) THEN Null
  ELSE IF IsNaN(a) \/ IsNaN(b) THEN NaN
  ELSE IF IsInf(a) \/ IsInf(b)
       THEN (IF a[1] = 0 \/ b[1] = 0 THEN NaN ELSE <<Sgn(a[1]) * Sgn(b[1]), 0>>)
  ELSE LET g1 == GCD(Abs(a[1]), b[2])
           g2 == GCD(Abs(b[1]), a[2])
       IN  Rat((a[1] \div g1) * (b[1] \div g2), (a[2] \div g2) * (b[2] \div g1))

\* IEEE division: x/0 is +-inf, 0/0 and inf/inf are NaN; null propagates.
fDiv(a, b) ==
  IF IsNull(a) \/ IsNull(b) THEN Null
  ELSE IF IsNaN(a) \/ IsNaN(b) THEN NaN
  ELSE IF IsInf(a) THEN (IF IsInf(b) THEN NaN
                         ELSE <<a[1] * (IF b[1] < 0 THEN -1 ELSE 1), 0>>)
  ELSE IF IsInf(b) THEN Num(0)
  ELSE IF b[1] = 0 THEN (IF a[1] = 0 THEN NaN ELSE <<Sgn(a[1]), 0>>)
  ELSE fMul(a, Rat(b[2], b[1]))

fAbs(a) == IF IsFin(a) \/ IsInf(a) THEN <<Abs(a[1]), a[2]>> ELSE a

\* polars orders floats totally: NaN equals NaN and is greater than any
\* other value.  Rank 0: -inf, 1: finite, 2: +inf, 3: NaN.
Rank(a) == IF IsNaN(a) THEN 3 ELSE IF IsFin(a) THEN 1
           ELSE IF a[1] > 0 THEN 2 ELSE 0

TotLt(a, b) ==
  IF IsFin(a) /\ IsFin(b)
  THEN LET g == GCD(a[2], b[2])
       IN  a[1] * (b[2] \div g) < b[1] * (a[2] \div g)
  ELSE Rank(a) < Rank(b)

\* Comparisons of a series with a series or a literal: null where either
\* side is null.
fGt(a, b) == IF IsNull(a) \/ IsNull(b) THEN Null
             ELSE IF TotLt(b, a) THEN True ELSE False
fLt(a, b) == fGt(b, a)
fEq(a, b) == IF IsNull(a) \/ IsNull(b) THEN Null
             ELSE IF a = b THEN True ELSE False

\* Kleene logic of polars' & and | on Boolean series.
bAnd(a, b) == IF a = False \/ b = False THEN False
              ELSE IF IsNull(a) \/ IsNull(b) THEN Null ELSE True
bOr(a, b)  == IF a = True \/ b = True THEN True
              ELSE IF IsNull(a) \/ IsNull(b) THEN Null ELSE False

fill_null(x, v) == IF IsNull(x) THEN v ELSE x
fill_nan(x, v)  == IF IsNaN(x) THEN v ELSE x

\* Series.replace(0, None)  /  pl.when(x == 0).then(None).otherwise(x)
replace0(x) == IF x = Num(0) THEN Null ELSE x

\* Mutation: round(2) with ties away from zero.
round2_half_away(x) ==
  IF ~IsFin(x) THEN x
  ELSE LET n == 100 * Abs(x[1])
           q == n \div x[2]
           r == n - q * x[2]
       IN  Rat(Sgn(x[1]) * (q + (IF 2 * r >= x[2] THEN 1 ELSE 0)), 100)

\* round(2), ties to even, on a finite value; specials and null pass.
round2(x) ==
  IF ~IsFin(x) THEN x
  ELSE LET n == 100 * x[1]
           q == n \div x[2]
           r == n - q * x[2]
           up == IF 2 * r > x[2] THEN 1
                 ELSE IF 2 * r < x[2] THEN 0
                 ELSE q % 2
       IN  Rat(q + up, 100)

\* Float64 keeps a bounded number of digits.  The model keeps a value exact
\* while its denominator is at most Precision and rounds it to the nearest
\* multiple of 1 / Precision beyond that; the recurrences whose exact value
\* gains a factor in the denominator at every row (ewm_mean, Wilder's
\* smoothing) pass their running value through it.
Precision == 10000

fl(x) ==
  IF ~IsFin(x) \/ x[2] <= Precision THEN x
  ELSE LET q == x[1] \div x[2]
           r == x[1] - q * x[2]
           f == (r * Precision) \div x[2]
           m == (r * Precision) % x[2]
       IN  Rat(q * Precision + f + (IF 2 * m >= x[2] THEN 1 ELSE 0), Precision)

----------------------------------------------------------------------------
(* Series primitives of polars: Series / Expr methods used by the source.  *)

\* A series built row by row, materialised as a tuple.
mat(f) == SubSeq(f, 1, Cardinality(DOMAIN f))

RECURSIVE SumRange(_, _, _)
SumRange(s, lo, hi) ==
  IF lo > hi THEN Num(0)
  ELSE IF lo = hi THEN s[lo]
  ELSE LET mid == (lo + hi) \div 2
       IN  fAdd(SumRange(s, lo, mid), SumRange(s, mid + 1, hi))

diff(s)  == mat([i \in 1..Len(s) |-> IF i = 1 THEN Null ELSE fSub(s[i], s[i - 1])])

\* Mutation: shift(-1) in place of shift(1), each row reading the next one.
shift_lookahead(s) ==
  mat([i \in 1..Len(s) |-> IF i = Len(s) THEN Null ELSE s[i + 1]])

shift(s) == mat([i \in 1..Len(s) |-> IF i = 1 THEN Null ELSE s[i - 1]])

\* rolling_sum(window_size=w): min_samples defaults to the window size, so a
\* row is null until w non-null samples fill its window.
rolling_sum(s, w) ==
  mat([i \in 1..Len(s) |->
     IF i < w \/ \E j \in (i - w + 1)..i : IsNull(s[j]) THEN Null
     ELSE SumRange(s, i - w + 1, i)])

\* ewm_mean(alpha, adjust=False), ignore_nulls=False, min_samples=1: the
\* running pair <<weighted_avg, old_wt>> of polars' kernel after row i.
EwmStep(prev, x, alpha, i) ==
  LET avg == prev[1]
      wt  == fMul(prev[2], fSub(Num(1), alpha))
  IN  IF i = 1 \/ IsNull(avg) THEN <<x, prev[2]>>
      ELSE IF IsNull(x) THEN <<avg, wt>>
      ELSE IF avg = x /\ ~IsNaN(x) THEN <<avg, Num(1)>>
      ELSE <<fl(fDiv(fAdd(fMul(wt, avg), fMul(alpha, x)), fAdd(wt, alpha))),
             Num(1)>>

\* The running pairs of rows lo..hi, from the pair before row lo.
RECURSIVE EwmStates(_, _, _, _, _)
EwmStates(prev, s, alpha, lo, hi) ==
  IF lo > hi THEN <<>>
  ELSE IF lo = hi THEN <<EwmStep(prev, s[lo], alpha, lo)>>
  ELSE LET mid  == (lo + hi) \div 2
           left == EwmStates(prev, s, alpha, lo, mid)
       IN  left \o EwmStates(left[Len(left)], s, alpha, mid + 1, hi)

ewm_mean(s, alpha) ==
  LET st == EwmStates(<<Null, Num(1)>>, s, alpha, 1, Len(s))
  IN  mat([i \in 1..Len(s) |-> st[i][1]])

\* forward_fill: each null row takes the last non-null value before it; a
\* leading run of nulls stays null.
LastDefined(s, i) ==
  LET js == {j \in 1..i : ~IsNull(s[j])}
  IN  IF js = {} THEN Null ELSE s[CHOOSE j \in js : \A k \in js : k <= j]

\* Mutation: the raw signal is returned without the forward fill.
forward_fill_dropped(s) == s

forward_fill(s) == mat([i \in 1..Len(s) |-> LastDefined(s, i)])

col(frame, name) ==
  mat([i \in 1..Len(frame) |->
     Num(CASE name = "high"   -> frame[i].high
           [] name = "low"    -> frame[i].low
           [] name = "close"  -> frame[i].close
           [] name = "volume" -> frame[i].volume)])

fMax(a, b) == IF TotLt(a, b) THEN b ELSE a

----------------------------------------------------------------------------
(* TA-Lib functions reached through the .ta accessor.  Each leaves NaN in   *)
(* its lookback rows.                                                       *)

\* TRANGE: lookback 1.
trange(close, high, low) ==
  mat([i \in 1..Len(close) |->
     IF i = 1 THEN NaN
     ELSE fMax(fSub(high[i], low[i]),
               fMax(fAbs(fSub(high[i], close[i - 1])),
                    fAbs(fSub(low[i], close[i - 1]))))])

\* SMA(timeperiod): lookback timeperiod - 1.
sma(s, timeperiod) ==
  mat([i \in 1..Len(s) |->
     IF i < timeperiod THEN NaN
     ELSE fDiv(SumRange(s, i - timeperiod + 1, i), Num(timeperiod))])

\* RSI(timeperiod): lookback timeperiod; the first averages are simple means
\* of the first timeperiod changes, the later ones Wilder-smoothed.  The
\* pair is <<average gain, average loss>> at row i >= timeperiod + 1.
gain(s, i) == LET d == fSub(s[i], s[i - 1]) IN IF TotLt(Num(0), d) THEN d ELSE Num(0)
loss(s, i) == LET d == fSub(s[i], s[i - 1]) IN IF TotLt(d, Num(0)) THEN fNeg(d) ELSE Num(0)

\* TA-Lib's running pair: the sums of gains and losses over the first
\* timeperiod changes, their means at row timeperiod + 1, Wilder's smoothing
\* after it.
RsiStep(prev, g, l, p, i) ==
  IF i = 1 THEN <<Num(0), Num(0)>>
  ELSE IF i <= p THEN <<fAdd(prev[1], g), fAdd(prev[2], l)>>
  ELSE IF i = p + 1
  THEN <<fDiv(fAdd(prev[1], g), Num(p)), fDiv(fAdd(prev[2], l), Num(p))>>
  ELSE <<fl(fDiv(fAdd(fMul(prev[1], Num(p - 1)), g), Num(p))),
         fl(fDiv(fAdd(fMul(prev[2], Num(p - 1)), l), Num(p)))>>

\* The running pairs of rows lo..hi, from the pair before row lo.
RECURSIVE RsiStates(_, _, _, _, _)
RsiStates(prev, s, p, lo, hi) ==
  IF lo > hi THEN <<>>
  ELSE IF lo = hi
  THEN <<IF lo = 1 THEN RsiStep(prev, Num(0), Num(0), p, 1)
         ELSE RsiStep(prev, gain(s, lo), loss(s, lo), p, lo)>>
  ELSE LET mid  == (lo + hi) \div 2
           left == RsiStates(prev, s, p, lo, mid)
       IN  left \o RsiStates(left[Len(left)], s, p, mid + 1, hi)

rsi_value(st) ==
  LET tot == fAdd(st[1], st[2])
  IN  IF tot = Num(0) THEN Num(0) ELSE fMul(Num(100), fDiv(st[1], tot))

rsi(s, timeperiod) ==
  LET st == RsiStates(<<Num(0), Num(0)>>, s, timeperiod, 1, Len(s))
  IN  mat([i \in 1..Len(s) |->
         IF i <= timeperiod THEN NaN ELSE rsi_value(st[i])])

\* CCI(high, low, close, timeperiod): lookback timeperiod - 1; typical price
\* (h + l + c) / 3, mean deviation over the window, 0 where either the
\* deviation of the last price or the mean deviation is 0.
RECURSIVE SumAbsDev(_, _, _, _)
SumAbsDev(tp, avg, lo, hi) ==
  IF lo > hi THEN Num(0)
  ELSE IF lo = hi THEN fAbs(fSub(tp[lo], avg))
  ELSE LET mid == (lo + hi) \div 2
       IN  fAdd(SumAbsDev(tp, avg, lo, mid), SumAbsDev(tp, avg, mid + 1, hi))

cci(high, low, close, timeperiod) ==
  LET tp == mat([i \in 1..Len(close) |->
               fDiv(fAdd(fAdd(high[i], low[i]), close[i]), Num(3))])
  IN  mat([i \in 1..Len(close) |->
         IF i < timeperiod THEN NaN
         ELSE LET avg == fDiv(SumRange(tp, i - timeperiod + 1, i), Num(timeperiod))
                  md  == fDiv(SumAbsDev(tp, avg, i - timeperiod + 1, i), Num(timeperiod))
                  dev == fSub(tp[i], avg)
              IN  IF dev = Num(0) \/ md = Num(0) THEN Num(0)
                  ELSE fDiv(dev, fMul(Rat(15, 1000), md))])

----------------------------------------------------------------------------
(* Element-wise helpers over whole series.                                 *)

gtLit(s, v) == mat([i \in 1..Len(s) |-> fGt(s[i], v)])
ltLit(s, v) == mat([i \in 1..Len(s) |-> fLt(s[i], v)])
gtSer(a, b) == mat([i \in 1..Len(a) |-> fGt(a[i], b[i])])
ltSer(a, b) == mat([i \in 1..Len(a) |-> fLt(a[i], b[i])])
addSer(a, b) == mat([i \in 1..Len(a) |-> fAdd(a[i], b[i])])

\* Python's int(): truncation toward zero.  float() of the weights used here
\* (integers and halves) is exact.
py_int(x)   == Num(Sgn(x[1]) * (Abs(x[1]) \div x[2]))
py_float(x) == x

\* (count / total.replace(0, None) * 100).round(2).fill_null(0)
probability(count, total) ==
  fill_null(round2(fMul(fDiv(count, replace0(total)), Num(100))), Num(0))

\* The lag / rolling-count / probability pattern shared by the price, RSI,
\* CCI and VWMA blocks: <<upward counts, downward counts, probabilityUpward,
\* probabilityDownward>>.
trend_block(condUp, condDown, lookbackPeriod) ==
  LET up    == rolling_sum(shift(condUp), lookbackPeriod)
      down  == rolling_sum(shift(condDown), lookbackPeriod)
      total == addSer(up, down)
  IN  <<up, down,
        mat([i \in 1..Len(up) |-> probability(up[i], total[i])]),
        mat([i \in 1..Len(up) |-> probability(down[i], total[i])])>>

\* _ratQ: two-tap rolling_mean with the rational-quadratic weights of taps
\* [1, 0]; polars normalises the weights of a weighted rolling mean.
ratQ(s, lookback) ==
  LET w1 == fDiv(Num(1), fAdd(Num(1), fDiv(Num(1), Num(2 * lookback * lookback))))
      w0 == Num(1)
      ws == fAdd(w1, w0)
      x  == mat([i \in 1..Len(s) |-> fill_null(fill_nan(s[i], Num(0)), Num(0))])
  IN  mat([i \in 1..Len(s) |->
         IF i < 2 THEN Null
         ELSE fAdd(fMul(fDiv(w1, ws), x[i - 1]), fMul(fDiv(w0, ws), x[i]))])

\* Directional movement columns common to both forms, before smoothing:
\* <<_int_plusDM, _int_minusDM, truerange>>, NaN replaced by null.
dirmov_dm(frame) ==
  LET high  == col(frame, "high")
      low   == col(frame, "low")
      close == col(frame, "close")
      up    == diff(high)
      dlow  == diff(low)
      down  == mat([i \in 1..Len(frame) |-> fNeg(dlow[i])])
      plusDM  == mat([i \in 1..Len(frame) |->
                    IF bAnd(fGt(up[i], down[i]), fGt(up[i], Num(0))) = True
                    THEN up[i] ELSE Num(0)])
      minusDM == mat([i \in 1..Len(frame) |->
                    IF bAnd(fGt(down[i], up[i]), fGt(down[i], Num(0))) = True
                    THEN down[i] ELSE Num(0)])
      tr    == trange(close, high, low)
      nn(s) == mat([i \in 1..Len(s) |-> fill_nan(s[i], Null)])
  IN  <<nn(plusDM), nn(minusDM), nn(tr)>>

\* <<plus_ewm, minus_ewm, truerange_ewm>>
dirmov_ewm(frame, length) ==
  LET dm    == dirmov_dm(frame)
      alpha == fDiv(Num(1), Num(length))
  IN  <<ewm_mean(dm[1], alpha), ewm_mean(dm[2], alpha), ewm_mean(dm[3], alpha)>>

\* _internal_ProbTrend_dirmov, whole-array form: the division by the smoothed
\* true range is not guarded.
dirmov(frame, length) ==
  LET e == dirmov_ewm(frame, length)
  IN  <<mat([i \in 1..Len(frame) |->
           fill_null(fDiv(fMul(e[1][i], Num(100)), e[3][i]), Num(0))]),
        mat([i \in 1..Len(frame) |->
           fill_null(fDiv(fMul(e[2][i], Num(100)), e[3][i]), Num(0))])>>

\* _internal_ProbTrend_dirmov, deferred form: a zero smoothed true range is
\* replaced by null before dividing.
lazy_dirmov(frame, length) ==
  LET e == dirmov_ewm(frame, length)
  IN  <<mat([i \in 1..Len(frame) |->
           fill_null(fDiv(fMul(e[1][i], Num(100)), replace0(e[3][i])), Num(0))]),
        mat([i \in 1..Len(frame) |->
           fill_null(fDiv(fMul(e[2][i], Num(100)), replace0(e[3][i])), Num(0))])>>

\* _internal_ProbTrend_adx on the <<plus, minus>> of dirmov: <<adx, plus,
\* minus>>.
adx_of(pm, adxlen) ==
  LET plus  == pm[1]
      minus == pm[2]
      operand == mat([i \in 1..Len(plus) |->
                    LET summ == fAdd(plus[i], minus[i])
                    IN  fDiv(fAbs(fSub(plus[i], minus[i])),
                             IF fEq(summ, Num(0)) = True THEN Num(1) ELSE summ)])
      e == ewm_mean(operand, fDiv(Num(1), Num(adxlen)))
  IN  <<mat([i \in 1..Len(plus) |-> fMul(Num(100), e[i])]), plus, minus>>

adx(frame, dilen, adxlen)      == adx_of(dirmov(frame, dilen), adxlen)
lazy_adx(frame, dilen, adxlen) == adx_of(lazy_dirmov(frame, dilen), adxlen)

----------------------------------------------------------------------------
(* ProbTrend.                                                              *)

Raised == [status |-> "raised", signal |-> <<>>, oscillator |-> <<>>,
           priceChangePercentage |-> <<>>, plus |-> <<>>, minus |-> <<>>,
           vwmaValue |-> <<>>, price |-> <<>>, rsi |-> <<>>, adx |-> <<>>,
           cci |-> <<>>, vwma |-> <<>>]

NotRun == [Raised EXCEPT !.status = "none"]

\* What makes a call raise: _ratQ divides by lookback**2 * 2.0, rolling_sum
\* needs a positive window, alpha = 1.0 / adxPeriod must lie in (0, 1], and
\* TA-Lib rejects a timeperiod below 2.
raises(c) ==
  \/ c.lookbackPeriod <= 0
  \/ c.adxPeriod <= 0
  \/ c.rsiPeriod < 2
  \/ c.cciPeriod < 2
  \/ c.vwmaPeriod < 2

\* sum_k w[k] * prob_k[i] / sum_k w[k]
combined(w, p1, p2, p3, p4, p5) ==
  fDiv(fAdd(fAdd(fAdd(fAdd(fMul(w[1], p1), fMul(w[2], p2)), fMul(w[3], p3)),
                 fMul(w[4], p4)), fMul(w[5], p5)),
       fAdd(fAdd(fAdd(fAdd(w[1], w[2]), w[3]), w[4]), w[5]))

\* Mutation: the operands of the final subtraction exchanged.
combined_oscillator_swapped(w, price, rsiB, adxB, cciB, vwmaB) ==
  LET n    == Len(price[3])
  IN  mat([i \in 1..n |->
         fSub(combined(w, price[4][i], rsiB[4][i], adxB[4][i], cciB[4][i], vwmaB[4][i]),
              combined(w, price[3][i], rsiB[3][i], adxB[3][i], cciB[3][i], vwmaB[3][i]))])

\* combinedOscillatorValue from the weights and the five probability blocks.
combined_oscillator(w, price, rsiB, adxB, cciB, vwmaB) ==
  LET n    == Len(price[3])
      up   == mat([i \in 1..n |->
                 combined(w, price[3][i], rsiB[3][i], adxB[3][i], cciB[3][i], vwmaB[3][i])])
      down == mat([i \in 1..n |->
                 combined(w, price[4][i], rsiB[4][i], adxB[4][i], cciB[4][i], vwmaB[4][i])])
  IN  mat([i \in 1..n |-> fSub(up[i], down[i])])

\* Mutation: a zero oscillator counts as an upward crossing whatever came
\* before it (>= in place of >).
cross_up_cond_ge(osc) ==
  mat([i \in 1..Len(osc) |->
     bOr(fGt(osc[i], Num(0)), fEq(osc[i], Num(0)))])

cross_up_cond(osc) ==
  LET prev == shift(osc)
  IN  mat([i \in 1..Len(osc) |->
         bOr(fGt(osc[i], Num(0)),
             bAnd(fEq(osc[i], Num(0)), fLt(prev[i], Num(0))))])

\* Mutation: a zero oscillator counts as a downward crossing whatever came
\* before it (<= in place of <).
cross_down_cond_le(osc) ==
  mat([i \in 1..Len(osc) |->
     bOr(fLt(osc[i], Num(0)), fEq(osc[i], Num(0)))])

cross_down_cond(osc) ==
  LET prev == shift(osc)
  IN  mat([i \in 1..Len(osc) |->
         bOr(fLt(osc[i], Num(0)),
             bAnd(fEq(osc[i], Num(0)), fGt(prev[i], Num(0))))])

\* pl.when(cross_up.fill_null(False)).then(1.0)
\*   .when(cross_down.fill_null(False)).then(-1.0).otherwise(None)
raw_signal(osc) ==
  LET cross_up   == cross_up_cond(osc)
      cross_down == cross_down_cond(osc)
  IN  mat([i \in 1..Len(osc) |->
         IF fill_null(cross_up[i], False) = True THEN Num(1)
         ELSE IF fill_null(cross_down[i], False) = True THEN Num(-1)
         ELSE Null])

crossover_signal(osc) == forward_fill(raw_signal(osc))

\* Mutation: the buckets are filled on >= and <=, so that equal directional
\* indicators put the count in both.
adx_block_ties(a, lookbackPeriod) ==
  LET n      == Len(a[1])
      rolled == rolling_sum(shift(gtLit(a[1], Num(25))), lookbackPeriod)
      upADX  == mat([i \in 1..n |-> IF fLt(a[2][i], a[3][i]) = True THEN Num(0) ELSE rolled[i]])
      dnADX  == mat([i \in 1..n |-> IF fGt(a[2][i], a[3][i]) = True THEN Num(0) ELSE rolled[i]])
      totADX == addSer(upADX, dnADX)
  IN  <<upADX, dnADX,
        mat([i \in 1..n |-> probability(upADX[i], totADX[i])]),
        mat([i \in 1..n |-> probability(dnADX[i], totADX[i])])>>

\* The ADX block of ProbTrend on a = <<adx, plus, minus>>:
\*   rolled_adx_condition = (adx > 25).shift(1).rolling_sum(lookbackPeriod)
\*   upwardTrendsADX   = pl.when(plus > minus).then(rolled).otherwise(0)
\*   downwardTrendsADX = pl.when(plus < minus).then(rolled).otherwise(0)
\* giving <<upward counts, downward counts, probabilityUpward,
\* probabilityDownward>>.
adx_block(a, lookbackPeriod) ==
  LET n      == Len(a[1])
      rolled == rolling_sum(shift(gtLit(a[1], Num(25))), lookbackPeriod)
      upADX  == mat([i \in 1..n |-> IF fGt(a[2][i], a[3][i]) = True THEN rolled[i] ELSE Num(0)])
      dnADX  == mat([i \in 1..n |-> IF fLt(a[2][i], a[3][i]) = True THEN rolled[i] ELSE Num(0)])
      totADX == addSer(upADX, dnADX)
  IN  <<upADX, dnADX,
        mat([i \in 1..n |-> probability(upADX[i], totADX[i])]),
        mat([i \in 1..n |-> probability(dnADX[i], totADX[i])])>>

\* The part of ProbTrend the two forms share: the five probability blocks,
\* the weighted combination and the crossover signal, given the form's own
\* weights w, priceChangePercentage and <<adx, plus, minus>>.
prob_trend(frame, c, w, pcp, a) ==
  LET n      == Len(frame)
      close  == col(frame, "close")
      volume == col(frame, "volume")
      L      == c.lookbackPeriod
      kernel == ratQ(pcp, L)
      price  == trend_block(gtLit(kernel, Num(0)), ltLit(kernel, Num(0)), L)
      rsiValue == rsi(close, c.rsiPeriod)
      rsiB   == trend_block(gtLit(rsiValue, Num(50)), ltLit(rsiValue, Num(50)), L)
      adxB   == adx_block(a, L)
      cciValue == cci(close, close, close, c.cciPeriod)
      cciB   == trend_block(gtLit(cciValue, Num(0)), ltLit(cciValue, Num(0)), L)
      volClose == mat([i \in 1..n |-> fMul(volume[i], close[i])])
      smaVC  == sma(volClose, c.vwmaPeriod)
      smaV   == sma(volume, c.vwmaPeriod)
      vwmaValue == mat([i \in 1..n |-> fDiv(smaVC[i], replace0(smaV[i]))])
      vwmaB  == trend_block(gtSer(vwmaValue, close), ltSer(vwmaValue, close), L)
      osc    == combined_oscillator(w, price, rsiB, adxB, cciB, vwmaB)
  IN  [status |-> "ok", signal |-> crossover_signal(osc), oscillator |-> osc,
       priceChangePercentage |-> pcp, plus |-> a[2], minus |-> a[3],
       vwmaValue |-> vwmaValue, price |-> price, rsi |-> rsiB, adx |-> adxB,
       cci |-> cciB, vwma |-> vwmaB]

\* probability_trend.ProbTrend: weights through int(), unguarded
\* priceChange / close.shift(1).
ProbTrend(frame, c) ==
  IF raises(c) THEN Raised
  ELSE LET close == col(frame, "close")
           w     == [k \in 1..5 |-> py_int(c.weights[k])]
           priceChange == diff(close)
           prev  == shift(close)
           pcp   == mat([i \in 1..Len(frame) |->
                       fMul(fDiv(priceChange[i], prev[i]), Num(100))])
       IN  prob_trend(frame, c, w, pcp, adx(frame, c.adxPeriod, c.adxPeriod))

\* probability_trend_lazy.ProbTrend, evaluated on the frame: weights through
\* float(), a zero close.shift(1) replaced by null before dividing.
lazy_ProbTrend(frame, c) ==
  IF raises(c) THEN Raised
  ELSE LET close == col(frame, "close")
           w     == [k \in 1..5 |-> py_float(c.weights[k])]
           priceChange == diff(close)
           prev  == shift(close)
           pcp   == mat([i \in 1..Len(frame) |->
                       fMul(fDiv(priceChange[i], replace0(prev[i])), Num(100))])
       IN  prob_trend(frame, c, w, pcp, lazy_adx(frame, c.adxPeriod, c.adxPeriod))

----------------------------------------------------------------------------
(* The single forward scan of the design: one step per appended bar,       *)
(* carrying the last bars of the bounded windows, the rolling condition    *)
(* buffers, the running RSI and EWM pairs, the last oscillator and the     *)
(* latched signal.  The repository holds the whole-array and the deferred  *)
(* forms only; the scan follows the design's description, with the         *)
(* arithmetic of probability_trend.ProbTrend row by row.                   *)

Last(s) == s[Len(s)]

\* A fixed-size sliding buffer of the last size entries.
Push(buf, x, size) ==
  IF Len(buf) < size THEN Append(buf, x) ELSE Append(Tail(buf), x)

\* The rolling count over a full buffer with no undefined entry.
Count(buf, size) ==
  IF Len(buf) < size \/ \E j \in 1..Len(buf) : IsNull(buf[j]) THEN Null
  ELSE SumRange(buf, 1, Len(buf))

ScanWindow(c) ==
  LET m == IF c.cciPeriod > c.vwmaPeriod THEN c.cciPeriod ELSE c.vwmaPeriod
  IN  IF m > 3 THEN m ELSE 3

ScanInit ==
  [rows |-> 0, tail |-> <<>>, rsi |-> <<Num(0), Num(0)>>,
   ewm |-> [k \in 1..4 |-> <<Null, Num(1)>>],
   bufs |-> [k \in 1..9 |-> <<>>], osc |-> Null, latch |-> Null]

\* The indicator values of the new row from the carried windows and pairs.
ScanRow(st, b, c) ==
  LET i      == st.rows + 1
      tail   == Push(st.tail, b, ScanWindow(c))
      n      == Len(tail)
      close  == col(tail, "close")
      volume == col(tail, "volume")
      priceChange == diff(close)
      prev   == shift(close)
      pcp    == mat([j \in 1..n |-> fMul(fDiv(priceChange[j], prev[j]), Num(100))])
      dm     == dirmov_dm(tail)
      alpha  == fDiv(Num(1), Num(c.adxPeriod))
      volClose == mat([j \in 1..n |-> fMul(volume[j], close[j])])
      rsiSt  == IF i = 1 THEN RsiStep(st.rsi, Num(0), Num(0), c.rsiPeriod, 1)
                ELSE RsiStep(st.rsi, gain(close, n), loss(close, n), c.rsiPeriod, i)
  IN  [tail |-> tail, close |-> Last(close),
       kernel |-> Last(ratQ(pcp, c.lookbackPeriod)),
       rsi |-> rsiSt,
       ePlus  |-> EwmStep(st.ewm[1], Last(dm[1]), alpha, i),
       eMinus |-> EwmStep(st.ewm[2], Last(dm[2]), alpha, i),
       eTR    |-> EwmStep(st.ewm[3], Last(dm[3]), alpha, i),
       cciValue |-> Last(cci(close, close, close, c.cciPeriod)),
       vwmaValue |-> fDiv(Last(sma(volClose, c.vwmaPeriod)),
                          replace0(Last(sma(volume, c.vwmaPeriod))))]

\* The directional indexes and the ADX of the new row.
ScanAdx(st, c, r) ==
  LET i      == st.rows + 1
      plus   == fill_null(fDiv(fMul(r.ePlus[1], Num(100)), r.eTR[1]), Num(0))
      minus  == fill_null(fDiv(fMul(r.eMinus[1], Num(100)), r.eTR[1]), Num(0))
      summ   == fAdd(plus, minus)
      operand == fDiv(fAbs(fSub(plus, minus)),
                      IF fEq(summ, Num(0)) = True THEN Num(1) ELSE summ)
  IN  [row |-> r, plus |-> plus, minus |-> minus,
       rsiValue |-> IF i <= c.rsiPeriod THEN NaN ELSE rsi_value(r.rsi),
       eAdx |-> EwmStep(st.ewm[4], operand, fDiv(Num(1), Num(c.adxPeriod)), i)]

\* The direction tests of the new row and the oscillator from the counts
\* carried in the buffers.
ScanOsc(st, c, a) ==
  LET r      == a.row
      L      == c.lookbackPeriod
      w      == [k \in 1..5 |-> py_int(c.weights[k])]
      adxValue == fMul(Num(100), a.eAdx[1])
      cnt    == mat([k \in 1..9 |-> Count(st.bufs[k], L)])
      upADX  == IF fGt(a.plus, a.minus) = True THEN cnt[5] ELSE Num(0)
      dnADX  == IF fLt(a.plus, a.minus) = True THEN cnt[5] ELSE Num(0)
      pUp(u, d) == probability(u, fAdd(u, d))
  IN  [adx |-> a,
       conds |-> <<fGt(r.kernel, Num(0)), fLt(r.kernel, Num(0)),
                   fGt(a.rsiValue, Num(50)), fLt(a.rsiValue, Num(50)),
                   fGt(adxValue, Num(25)),
                   fGt(r.cciValue, Num(0)), fLt(r.cciValue, Num(0)),
                   fGt(r.vwmaValue, r.close), fLt(r.vwmaValue, r.close)>>,
       osc |-> fSub(combined(w, pUp(cnt[1], cnt[2]), pUp(cnt[3], cnt[4]),
                             pUp(upADX, dnADX), pUp(cnt[6], cnt[7]),
                             pUp(cnt[8], cnt[9])),
                    combined(w, pUp(cnt[2], cnt[1]), pUp(cnt[4], cnt[3]),
                             pUp(dnADX, upADX), pUp(cnt[7], cnt[6]),
                             pUp(cnt[9], cnt[8])))]

\* The latch of the new row and the state carried to the next one.
ScanLatch(st, c, o) ==
  LET up   == bOr(fGt(o.osc, Num(0)), bAnd(fEq(o.osc, Num(0)), fLt(st.osc, Num(0))))
      down == bOr(fLt(o.osc, Num(0)), bAnd(fEq(o.osc, Num(0)), fGt(st.osc, Num(0))))
  IN  [rows |-> st.rows + 1, tail |-> o.adx.row.tail, rsi |-> o.adx.row.rsi,
       ewm |-> <<o.adx.row.ePlus, o.adx.row.eMinus, o.adx.row.eTR, o.adx.eAdx>>,
       bufs |-> [k \in 1..9 |-> Push(st.bufs[k], o.conds[k], c.lookbackPeriod)],
       osc |-> o.osc,
       latch |-> IF fill_null(up, False) = True THEN Num(1)
                 ELSE IF fill_null(down, False) = True THEN Num(-1)
                 ELSE st.latch]

\* One step of the scan, each stage computed once from the one before it.
ScanStep(st, b, c) ==
  CHOOSE next \in {ScanLatch(st, c, o) :
                     o \in {ScanOsc(st, c, a) :
                              a \in {ScanAdx(st, c, r) : r \in {ScanRow(st, b, c)}}}} :
    TRUE

----------------------------------------------------------------------------
(* The harnesses: a loader supplies the bars, then each harness runs its   *)
(* form of the indicator on the loaded frame.                              *)

MaxBars   == 5
MaxPrice  == 2
MaxVolume == 1
MaxLookback == 2

BarSet ==
  {b \in [high : 1..MaxPrice, low : 1..MaxPrice, close : 1..MaxPrice,
          volume : 0..MaxVolume] :
     /\ b.low <= b.close /\ b.close <= b.high
     /\ b.volume = (b.high - b.low + b.close) % (MaxVolume + 1) }

Half == Rat(1, 2)

WeightSet ==
  { <<Num(1), Num(1), Num(1), Num(1), Num(1)>>,
    <<Rat(3, 2), Num(1), Num(0), Num(0), Num(0)>>,
    <<Num(0), Num(0), Num(0), Num(0), Num(0)>> }

Configs ==
  [lookbackPeriod : 0..MaxLookback, rsiPeriod : {2}, adxPeriod : {2},
   cciPeriod : {2}, vwmaPeriod : {2}, weights : WeightSet]

Idle ==
  /\ oscillator = <<>> /\ signal = <<>>
  /\ counts = <<0, 0>> /\ probs = <<Null, Null>>
  /\ carry = ScanInit /\ emitted = <<>>
  /\ series = <<>> /\ smoothed = <<>>

Init ==
  /\ df = <<>>
  /\ cfg \in Configs
  /\ eager = NotRun
  /\ lazy = NotRun
  /\ Idle

\* load_test_data: one more row of the data file.
LoadBar(b) ==
  /\ Len(df) < MaxBars
  /\ eager.status = "none" /\ lazy.status = "none"
  /\ df' = Append(df, b)
  /\ UNCHANGED <<cfg, eager, lazy, oscillator, signal, counts, probs, carry, emitted, series, smoothed>>

\* test-indi.py: run_indicator on the loaded frame.
RunEager ==
  /\ Len(df) > 0
  /\ eager.status = "none"
  /\ eager' = ProbTrend(df, cfg)
  /\ UNCHANGED <<df, cfg, lazy, oscillator, signal, counts, probs, carry, emitted, series, smoothed>>

\* test-lazy-indi.py, run after test-indi.py on the same data file:
\* run_indicator builds the expression, with_columns evaluates it.
RunLazy ==
  /\ Len(df) > 0
  /\ eager.status # "none"
  /\ lazy.status = "none"
  /\ lazy' = lazy_ProbTrend(df, cfg)
  /\ UNCHANGED <<df, cfg, eager, oscillator, signal, counts, probs, carry, emitted, series, smoothed>>

Next ==
  \/ \E b \in BarSet : LoadBar(b)
  \/ RunEager
  \/ RunLazy

Spec == Init /\ [][Next]_vars

----------------------------------------------------------------------------
(* The crossover stage alone, fed one oscillator value per bar.            *)

MaxOscLen == 5

OscSet == {Num(-60), Num(-20), Num(0), Num(20)}

InitLatch ==
  /\ df = <<>>
  /\ cfg \in {c \in Configs : c.lookbackPeriod = 1 /\ c.weights[3] = Num(1)}
  /\ eager = NotRun /\ lazy = NotRun
  /\ Idle

Crossover(v) ==
  /\ Len(oscillator) < MaxOscLen
  /\ oscillator' = Append(oscillator, v)
  /\ signal' = crossover_signal(oscillator')
  /\ UNCHANGED <<df, cfg, eager, lazy, counts, probs, carry, emitted, series, smoothed>>

NextLatch == \E v \in OscSet : Crossover(v)

SpecLatch == InitLatch /\ [][NextLatch]_vars

----------------------------------------------------------------------------
(* Incremental reuse: each appended bar is followed by a full recompute of *)
(* probability_trend.ProbTrend over the extended series and by one step of *)
(* the forward scan.                                                       *)

AppendBar(b) ==
  /\ Len(df) < MaxBars
  /\ df' = Append(df, b)
  /\ eager' = ProbTrend(df', cfg)
  /\ carry' = IF raises(cfg) THEN carry ELSE ScanStep(carry, b, cfg)
  /\ emitted' = IF raises(cfg) THEN emitted ELSE Append(emitted, carry'.latch)
  /\ UNCHANGED <<cfg, lazy, oscillator, signal, counts, probs, series, smoothed>>

NextScan == \E b \in BarSet : AppendBar(b)

SpecScan == Init /\ [][NextScan]_vars

----------------------------------------------------------------------------
(* The end-to-end run on a rising series: both harnesses call ProbTrend    *)
(* with its default parameters on the loaded frame.                        *)

DefaultLookbackPeriod == 43
DefaultRsiPeriod      == 14
DefaultAdxPeriod      == 6
DefaultCciPeriod      == 13
DefaultVwmaPeriod     == 9
DefaultWeights        == <<Num(50), Num(20), Num(15), Num(10), Num(5)>>

DefaultConfig ==
  [lookbackPeriod |-> DefaultLookbackPeriod, rsiPeriod |-> DefaultRsiPeriod,
   adxPeriod |-> DefaultAdxPeriod, cciPeriod |-> DefaultCciPeriod,
   vwmaPeriod |-> DefaultVwmaPeriod, weights |-> DefaultWeights]

TrendBars == 100
MaxStep   == 2

\* A bar with high and low in fixed proportion to close.
TrendBar(x, v) == [high |-> 3 * x, low |-> x, close |-> 2 * x, volume |-> v]

\* The bars that may follow the frame: a first level and a constant nonzero
\* volume, two free upward steps, then the two steps alternating.
NextTrendBars(frame) ==
  LET n == Len(frame)
  IN  IF n = 0 THEN {TrendBar(x, v) : x \in 1..MaxStep, v \in 1..MaxStep}
      ELSE IF n < 3
      THEN {TrendBar(frame[n].low + st, frame[n].volume) : st \in 1..MaxStep}
      ELSE {TrendBar(frame[n].low + (frame[n - 1].low - frame[n - 2].low),
                     frame[n].volume)}

InitTrend ==
  /\ df = <<>>
  /\ cfg = DefaultConfig
  /\ eager = NotRun /\ lazy = NotRun
  /\ Idle

LoadTrendBar(b) ==
  /\ Len(df) < TrendBars
  /\ b \in NextTrendBars(df)
  /\ eager.status = "none" /\ lazy.status = "none"
  /\ df' = Append(df, b)
  /\ UNCHANGED <<cfg, eager, lazy, oscillator, signal, counts, probs, carry, emitted, series, smoothed>>

RunEagerTrend == Len(df) = TrendBars /\ RunEager

RunLazyTrend == Len(df) = TrendBars /\ RunLazy

NextTrend ==
  \/ \E b \in NextTrendBars(df) : LoadTrendBar(b)
  \/ RunEagerTrend
  \/ RunLazyTrend

SpecTrend == InitTrend /\ [][NextTrend]_vars

----------------------------------------------------------------------------
(* The harness runs with weights given by the caller: fractional weights,  *)
(* a negative weight within a positive total, and the defaults.            *)

AdmissibleWeights ==
  { <<Half, Half, Half, Half, Half>>,
    <<Num(2), Num(-1), Num(0), Num(0), Num(0)>>,
    DefaultWeights }

InitWeights ==
  /\ df = <<>>
  /\ cfg \in {c \in [lookbackPeriod : {1}, rsiPeriod : {2}, adxPeriod : {2},
                     cciPeriod : {2}, vwmaPeriod : {2},
                     weights : AdmissibleWeights] : TRUE}
  /\ eager = NotRun /\ lazy = NotRun
  /\ Idle

SpecWeights == InitWeights /\ [][Next]_vars

----------------------------------------------------------------------------
(* The probability stage alone, on a pair of rolling counts.               *)

InitProb ==
  /\ df = <<>>
  /\ cfg \in {c \in Configs : c.lookbackPeriod = 1 /\ c.weights[3] = Num(1)}
  /\ eager = NotRun /\ lazy = NotRun
  /\ oscillator = <<>> /\ signal = <<>>
  /\ counts \in {c \in (0..DefaultLookbackPeriod) \X (0..DefaultLookbackPeriod) :
                   c[1] + c[2] <= DefaultLookbackPeriod}
  /\ probs = <<Null, Null>>
  /\ carry = ScanInit /\ emitted = <<>>
  /\ series = <<>> /\ smoothed = <<>>

Probabilities ==
  /\ probs = <<Null, Null>>
  /\ probs' = <<probability(Num(counts[1]), Num(counts[1] + counts[2])),
                probability(Num(counts[2]), Num(counts[1] + counts[2]))>>
  /\ UNCHANGED <<df, cfg, eager, lazy, oscillator, signal, counts, carry, emitted, series, smoothed>>

NextProb == Probabilities

SpecProb == InitProb /\ [][NextProb]_vars

-----------------------------------------------------------------------------
(* The smoothing of one column alone, as _internal_ProbTrend_dirmov applies *)
(* it: fill_nan(None).ewm_mean(alpha = 1.0 / length, adjust = False).       *)

MaxSeriesLen == 3

EwmSamples == {Null, NaN, Num(10), Num(20)}

EwmLengths == {2, 3}

InitEwm ==
  /\ df = <<>>
  /\ cfg \in [lookbackPeriod : {1}, rsiPeriod : {2}, adxPeriod : EwmLengths,
               cciPeriod : {2}, vwmaPeriod : {2}, weights : {DefaultWeights}]
  /\ eager = NotRun /\ lazy = NotRun
  /\ Idle

\* One more row of the column to smooth.
Sample(x) ==
  /\ Len(series) < MaxSeriesLen
  /\ smoothed = <<>>
  /\ series' = Append(series, x)
  /\ UNCHANGED <<df, cfg, eager, lazy, oscillator, signal, counts, probs, carry, emitted, smoothed>>

smooth(s, length) ==
  ewm_mean(mat([i \in 1..Len(s) |-> fill_nan(s[i], Null)]),
           fDiv(Num(1), Num(length)))

Smooth ==
  /\ Len(series) > 0
  /\ smoothed = <<>>
  /\ smoothed' = smooth(series, cfg.adxPeriod)
  /\ UNCHANGED <<df, cfg, eager, lazy, oscillator, signal, counts, probs, carry, emitted, series>>

NextEwm ==
  \/ \E x \in EwmSamples : Sample(x)
  \/ Smooth

SpecEwm == InitEwm /\ [][NextEwm]_vars

----------------------------------------------------------------------------
(* Claims.                                                                 *)

Ran(r) == r.status = "ok"

SignalValues == {Num(1), Num(-1), Null}

\* One value per bar, each +1.0, -1.0 or null, null only as a leading run.
WellFormedSignal(r) ==
  /\ Len(r.signal) = Len(df)
  /\ \A i \in 1..Len(r.signal) : r.signal[i] \in SignalValues
  /\ \A i, j \in 1..Len(r.signal) :
       (i < j /\ ~IsNull(r.signal[i])) => ~IsNull(r.signal[j])

\* C1: for every bar series and parameter set, each form of ProbTrend emits
\* exactly one value per bar, each value is +1.0, -1.0 or undefined, and
\* undefined occurs only as a contiguous leading prefix.
C1_SignalPrefixLatch ==
  /\ Ran(eager) => WellFormedSignal(eager)
  /\ Ran(lazy) => WellFormedSignal(lazy)

\* Both forms have run, the signal starts undefined, becomes defined, and a
\* later bar crosses neither way (its raw value is null and is filled).
C1_Witness ==
  /\ Ran(eager) /\ Ran(lazy)
  /\ \E i, j \in 1..Len(df) :
       /\ i < j
       /\ IsNull(eager.signal[1]) /\ ~IsNull(eager.signal[i])
       /\ IsNull(raw_signal(eager.oscillator)[j])
       /\ IsNull(raw_signal(lazy.oscillator)[j]) /\ ~IsNull(lazy.signal[i])

\* The oscillator tests of the crossover stage, stated on plain numbers.
OscPos(o, i)  == IsFin(o[i]) /\ o[i][1] > 0
OscNeg(o, i)  == IsFin(o[i]) /\ o[i][1] < 0
OscZero(o, i) == o[i] = Num(0)
CrossUp(o, i)   == OscPos(o, i) \/ (OscZero(o, i) /\ i > 1 /\ OscNeg(o, i - 1))
CrossDown(o, i) == OscNeg(o, i) \/ (OscZero(o, i) /\ i > 1 /\ OscPos(o, i - 1))
Held(sig, i)    == IF i = 1 THEN Null ELSE sig[i - 1]

\* C2: over any sequence of oscillator values the signal is the 3-state
\* latch: a crossUp bar sets +1, a crossDown bar sets -1, any other bar keeps
\* the previous state (undefined stays undefined); a bar with oscillator 0
\* after oscillator 0 satisfies neither test and holds.
C2_ThreeStateLatch ==
  /\ Len(signal) = Len(oscillator)
  /\ \A i \in 1..Len(oscillator) :
       /\ CrossUp(oscillator, i) => signal[i] = Num(1)
       /\ CrossDown(oscillator, i) => signal[i] = Num(-1)
       /\ (~CrossUp(oscillator, i) /\ ~CrossDown(oscillator, i))
            => signal[i] = Held(signal, i)
       /\ (i > 1 /\ OscZero(oscillator, i) /\ OscZero(oscillator, i - 1))
            => signal[i] = signal[i - 1]

\* Unknown is held, then Up is set, a double zero holds Up, and Down is set.
C2_Witness ==
  /\ Len(oscillator) = 5
  /\ OscZero(oscillator, 1) /\ IsNull(signal[1])
  /\ OscPos(oscillator, 2) /\ signal[2] = Num(1)
  /\ OscZero(oscillator, 3) /\ signal[3] = Num(-1)
  /\ OscZero(oscillator, 4) /\ signal[4] = Num(-1)
  /\ OscPos(oscillator, 5) /\ signal[5] = Num(1)

\* C3: with probUp = round(100*up/(up+down), 2) and probDown symmetric, the
\* two sum to 100 (or 0) whenever the rolling total is > 0, for every pair of
\* counts up to the lookback window, and both are 0 when the total is 0.
C3_ProbabilitiesSum ==
  probs # <<Null, Null>> =>
    /\ counts[1] + counts[2] > 0 => fAdd(probs[1], probs[2]) \in {Num(0), Num(100)}
    /\ counts[1] + counts[2] = 0 => (probs[1] = Num(0) /\ probs[2] = Num(0))

\* A rounding tie: 1 up and 31 down give 3.125 and 96.875.
C3_Witness ==
  /\ counts = <<1, 31>>
  /\ probs = <<Rat(312, 100), Rat(9688, 100)>>

\* Python's sum of the five weights as given by the caller.
TotalWeight(w) == fAdd(fAdd(fAdd(fAdd(w[1], w[2]), w[3]), w[4]), w[5])

ScaleFactors == {Num(2), Half}

Scaled(w, k) == [j \in 1..5 |-> fMul(k, w[j])]

OscillatorWith(r, w) == combined_oscillator(w, r.price, r.rsi, r.adx, r.cci, r.vwma)

\* C4: for every input series and every weight vector with positive sum,
\* multiplying all five weights by the same positive real factor leaves the
\* oscillator unchanged at every bar (the weights are used as reals).
C4_WeightScaleInvariance ==
  \A k \in ScaleFactors :
    TotLt(Num(0), TotalWeight(cfg.weights)) =>
      /\ Ran(eager) =>
           OscillatorWith(eager, [j \in 1..5 |-> py_int(Scaled(cfg.weights, k)[j])])
             = eager.oscillator
      /\ Ran(lazy) =>
           OscillatorWith(lazy, [j \in 1..5 |-> py_float(Scaled(cfg.weights, k)[j])])
             = lazy.oscillator

C6_EagerEqualsLazy ==
  (Ran(eager) /\ Ran(lazy)) => eager.signal = lazy.signal

ConfigurationError(c) ==
  \/ ~TotLt(Num(0), TotalWeight(c.weights))
  \/ c.lookbackPeriod <= 0 \/ c.rsiPeriod <= 0 \/ c.adxPeriod <= 0
  \/ c.cciPeriod <= 0 \/ c.vwmaPeriod <= 0

\* C7: an invocation with a configuration error (total weight <= 0 or a
\* period <= 0) ends in a fatal error and emits no signal value.
C7_FailFast ==
  ConfigurationError(cfg) =>
    /\ eager.status \in {"none", "raised"} /\ eager.signal = <<>>
    /\ lazy.status \in {"none", "raised"} /\ lazy.signal = <<>>

Undefined(x) == IsNull(x)

\* The guard outcomes at every division of one form's run.
GuardedDivisions(r) ==
  LET tr == dirmov_ewm(df, cfg.adxPeriod)[3]
      sv == sma(col(df, "volume"), cfg.vwmaPeriod)
      blocks == <<r.price, r.rsi, r.adx, r.cci, r.vwma>>
  IN  \A i \in 1..Len(df) :
        /\ (i > 1 /\ df[i - 1].close = 0) => Undefined(r.priceChangePercentage[i])
        /\ tr[i] = Num(0) => (r.plus[i] = Num(0) /\ r.minus[i] = Num(0))
        /\ sv[i] = Num(0) => Undefined(r.vwmaValue[i])
        /\ \A b \in 1..5 :
             fAdd(blocks[b][1][i], blocks[b][2][i]) = Num(0)
               => (blocks[b][3][i] = Num(0) /\ blocks[b][4][i] = Num(0))

\* C8: every division is guarded: where the denominator is 0 (close[i-1],
\* the smoothed true range, a rolling total, SMA(volume)) the result is the
\* documented undefined-or-substitute value, never an infinity or a NaN.
C8_GuardedDivisions ==
  /\ Ran(eager) => GuardedDivisions(eager)
  /\ Ran(lazy) => GuardedDivisions(lazy)

AllVolumeZero == \A i \in 1..Len(df) : df[i].volume = 0

ZeroVolumeOutcome(r) ==
  \A i \in 1..Len(df) :
    /\ ~IsFin(r.vwmaValue[i]) /\ ~IsInf(r.vwmaValue[i])
    /\ r.vwma[3][i] = Num(0) /\ r.vwma[4][i] = Num(0)

\* C9: when volume is 0 at every bar, vwma is undefined at every bar, both
\* VWMA probabilities are 0 at every bar, and ProbTrend does not raise.
C9_ZeroVolume ==
  (AllVolumeZero /\ ~raises(cfg)) =>
    /\ eager.status # "raised" /\ lazy.status # "raised"
    /\ Ran(eager) => ZeroVolumeOutcome(eager)
    /\ Ran(lazy) => ZeroVolumeOutcome(lazy)

\* The warm-up window: max of the five periods, plus one.
WarmUp ==
  LET periods == {cfg.lookbackPeriod, cfg.rsiPeriod, cfg.adxPeriod,
                  cfg.cciPeriod, cfg.vwmaPeriod}
  IN  (CHOOSE m \in periods : \A q \in periods : q <= m) + 1

SignalsUpPastWarmUp(r) ==
  /\ Len(r.signal) = TrendBars
  /\ \A i \in 1..Len(r.signal) : i > WarmUp => r.signal[i] = Num(1)

\* C10: on a 100-bar series with strictly increasing close, high and low
\* proportional to close and constant nonzero volume, run with the default
\* parameters, the signal is +1.0 at every bar past the warm-up window of
\* max(periods) + 1 bars.
C10_RisingSeriesSignalsUp ==
  /\ Ran(eager) => SignalsUpPastWarmUp(eager)
  /\ Ran(lazy) => SignalsUpPastWarmUp(lazy)

\* Both forms ran on a 100-bar rising series with unequal steps: undefined
\* through the warm-up, +1 at the last bar.
C10_Witness ==
  /\ Ran(eager) /\ Ran(lazy) /\ Len(df) = TrendBars
  /\ df[3].low - df[2].low # df[2].low - df[1].low
  /\ IsNull(eager.signal[1]) /\ eager.signal[TrendBars] = Num(1)
  /\ IsNull(lazy.signal[1]) /\ lazy.signal[TrendBars] = Num(1)

InRange(x) == IsFin(x) /\ ~TotLt(x, Num(-100)) /\ ~TotLt(Num(100), x)

OscillatorInRange(r) == \A i \in 1..Len(r.oscillator) : InRange(r.oscillator[i])

\* C11: for every input series and every weight vector of real weights with
\* a positive sum, the oscillator combinedUp - combinedDown lies in
\* [-100, 100] at every bar.
C11_OscillatorRange ==
  TotLt(Num(0), TotalWeight(cfg.weights)) =>
    /\ Ran(eager) => OscillatorInRange(eager)
    /\ Ran(lazy) => OscillatorInRange(lazy)

\* The sum of the samples that exist in rows [i - w + 1, i] of s.
PartialSum(s, w, i) ==
  LET lo == IF i - w + 1 > 1 THEN i - w + 1 ELSE 1
      have == mat([j \in 1..Len(s) |-> fill_null(s[j], Num(0))])
  IN  SumRange(have, lo, i)

PartialWindowCounts(r) ==
  LET close  == col(df, "close")
      L      == cfg.lookbackPeriod
      kernel == ratQ(r.priceChangePercentage, L)
      rsiValue == rsi(close, cfg.rsiPeriod)
      cciValue == cci(close, close, close, cfg.cciPeriod)
      lagged == <<shift(gtLit(kernel, Num(0))), shift(ltLit(kernel, Num(0))),
                  shift(gtLit(rsiValue, Num(50))), shift(ltLit(rsiValue, Num(50))),
                  shift(gtLit(cciValue, Num(0))), shift(ltLit(cciValue, Num(0))),
                  shift(gtSer(r.vwmaValue, close)), shift(ltSer(r.vwmaValue, close))>>
      count  == <<r.price[1], r.price[2], r.rsi[1], r.rsi[2],
                  r.cci[1], r.cci[2], r.vwma[1], r.vwma[2]>>
  IN  \A k \in 1..8 : \A i \in 1..Len(df) :
        count[k][i] = PartialSum(lagged[k], L, i)

\* C12: the rolling count of a lagged direction series at bar i is the sum
\* of the samples available in [i - window + 1, i]; where fewer than window
\* samples exist it is the sum of those that do, never undefined.
C12_PartialWindowCounts ==
  /\ Ran(eager) => PartialWindowCounts(eager)
  /\ Ran(lazy) => PartialWindowCounts(lazy)

\* The ADX rolling count of a run, recomputed from the run's directional
\* indicators: the number of the previous lookbackPeriod bars with adx > 25.
AdxRolledCount(r) ==
  rolling_sum(shift(gtLit(adx_of(<<r.plus, r.minus>>, cfg.adxPeriod)[1], Num(25))),
              cfg.lookbackPeriod)

IsNumber(x)   == ~IsNull(x) /\ ~IsNaN(x)
Greater(x, y) == IsNumber(x) /\ IsNumber(y) /\ TotLt(y, x)
NonZero(x)    == ~IsNull(x) /\ x # Num(0)

AdxPairs == { <<Num(0), Num(0)>>, <<Num(100), Num(0)>>, <<Num(0), Num(100)>> }

AdxBuckets(r) ==
  LET rolled == AdxRolledCount(r)
  IN  \A i \in 1..Len(r.plus) :
        /\ NonZero(r.adx[1][i]) => Greater(r.plus[i], r.minus[i])
        /\ NonZero(r.adx[2][i]) => Greater(r.minus[i], r.plus[i])
        /\ Greater(r.plus[i], r.minus[i]) => r.adx[1][i] = rolled[i]
        /\ Greater(r.minus[i], r.plus[i]) => r.adx[2][i] = rolled[i]
        /\ r.plus[i] = r.minus[i] => r.adx[1][i] = Num(0) /\ r.adx[2][i] = Num(0)
        /\ ~(NonZero(r.adx[1][i]) /\ NonZero(r.adx[2][i]))
        /\ <<r.adx[3][i], r.adx[4][i]>> \in AdxPairs

\* C13: at every bar the lagged count of bars with adx > 25 goes to the up
\* bucket only where plusDI > minusDI, to the down bucket only where
\* plusDI < minusDI and to neither where they are equal, so at most one ADX
\* count is nonzero and the ADX probability pair is (0,0), (100,0) or (0,100).
C13_AdxBuckets ==
  /\ Ran(eager) => AdxBuckets(eager)
  /\ Ran(lazy) => AdxBuckets(lazy)

\* The whole-array form has run on a frame where one bar puts a positive
\* count in the up bucket, one puts it in the down bucket and one has equal
\* directional indicators while the count is positive; the deferred form has
\* run on it too and fills a bucket.
AdxCases(r) ==
  /\ \E i \in 1..Len(r.plus) :
       <<r.adx[3][i], r.adx[4][i]>> = <<Num(100), Num(0)>>
  /\ \E i \in 1..Len(r.plus) :
       <<r.adx[3][i], r.adx[4][i]>> = <<Num(0), Num(100)>>

C13_Witness ==
  /\ Ran(eager) /\ Ran(lazy)
  /\ AdxCases(eager)
  /\ \E i \in 1..Len(eager.plus) :
       eager.plus[i] = eager.minus[i] /\ NonZero(AdxRolledCount(eager)[i])
  /\ \E i \in 1..Len(lazy.plus) :
       NonZero(lazy.adx[1][i]) \/ NonZero(lazy.adx[2][i])

\* The smoothing recurrence as stated: undefined before the first defined
\* input, that input as the seed, the previous value held over an undefined
\* input, alpha * x + (1 - alpha) * previous otherwise.
RECURSIVE Recurrence(_, _, _)
Recurrence(x, alpha, i) ==
  IF i = 0 THEN Null
  ELSE LET prev == Recurrence(x, alpha, i - 1)
       IN  IF IsNull(x[i]) THEN prev
           ELSE IF IsNull(prev) THEN x[i]
           ELSE fAdd(fMul(alpha, x[i]), fMul(fSub(Num(1), alpha), prev))

Defined(s) == mat([i \in 1..Len(s) |-> fill_nan(s[i], Null)])

\* C14: the smoothing follows e[i] = alpha * x[i] + (1 - alpha) * e[i-1], is
\* seeded with the first defined input, is undefined before it, and holds
\* e[i] = e[i-1] over a later undefined input without resetting or
\* re-weighting; alpha = 1/3 on [10, undefined, 20] gives [10, 10, 40/3].
C14_EwmRecurrence ==
  smoothed # <<>> =>
    \A i \in 1..Len(series) :
      smoothed[i] = Recurrence(Defined(series), fDiv(Num(1), Num(cfg.adxPeriod)), i)

\* The two crossing tests of the code on the oscillator fed so far, as the
\* when / then chain reads them.
CrossUpTrue(i)   == fill_null(cross_up_cond(oscillator)[i], False) = True
CrossDownTrue(i) == fill_null(cross_down_cond(oscillator)[i], False) = True

\* C15: at every bar crossUp and crossDown are never both true, so the
\* priority of the +1 branch never decides; signal[i] = +1 whenever
\* oscillator[i] > 0, -1 whenever oscillator[i] < 0, and at a bar with
\* oscillator 0 after a nonzero oscillator the signal is the opposite of
\* signal[i-1].
C15_CrossingsExclusive ==
  \A i \in 1..Len(oscillator) :
    /\ ~(CrossUpTrue(i) /\ CrossDownTrue(i))
    /\ OscPos(oscillator, i) => signal[i] = Num(1)
    /\ OscNeg(oscillator, i) => signal[i] = Num(-1)
    /\ (i > 1 /\ OscZero(oscillator, i) /\ ~OscZero(oscillator, i - 1))
         => /\ signal[i - 1] \in {Num(1), Num(-1)}
            /\ signal[i] = fNeg(signal[i - 1])

\* A zero after a positive bar flips the signal to -1, and a zero after a
\* negative bar flips it to +1; at both bars exactly one test is true.
C15_Witness ==
  \E i, j \in 2..Len(oscillator) :
    /\ OscZero(oscillator, i) /\ OscPos(oscillator, i - 1)
    /\ signal[i] = Num(-1) /\ CrossDownTrue(i) /\ ~CrossUpTrue(i)
    /\ OscZero(oscillator, j) /\ OscNeg(oscillator, j - 1)
    /\ signal[j] = Num(1) /\ CrossUpTrue(j) /\ ~CrossDownTrue(j)

====
